---- MODULE Spec2Model ----
(***************************************************************************)
(* Model of onemut's Prepared unit (src/src/prepared.rs): a container      *)
(* guarding a value, paired with a staged transform, consumed by apply or  *)
(* cancel.  Chain (not part of prepared.rs) is modelled from the           *)
(* specification text, section 4.3.                                        *)
(***************************************************************************)
EXTENDS Integers, Sequences, FiniteSets, TLC

\* Largest value a guarded slot starts with.
MaxVal == 5

Units == {"A", "B"}
Containers == {"cA", "cB"}
Slots == {1, 2}

\* The container a unit owns by value (field `inner`).
ContOf(u) == IF u = "A" THEN "cA" ELSE "cB"

\* Placeholder for "no value" in integer-typed positions.
NoVal == 0 - 1

\* The closures F: FnOnce(&mut T) -> Result<O, E> used as inputs.
\*   inc     : *x += 1; Ok(*x)
\*   dbl     : *x *= 2; Ok(*x)
\*   id      : Ok(*x)
\*   fail    : Err("R")
\*   mutfail : *x += 1; Err("R2")        (mutates its argument, then fails)
\*   halve   : if *x is even { *x /= 2; Ok(*x) } else { Err("odd") }
Transforms == {"inc", "dbl", "id", "fail", "mutfail", "halve"}

\* Result of running closure g on a value x held in a `&mut T`:
\* whether it returned Ok, its output or error, and the value left behind.
Run(g, x) ==
  CASE g = "inc"     -> [ok |-> TRUE,  o |-> x + 1, e |-> "",    left |-> x + 1]
    [] g = "dbl"     -> [ok |-> TRUE,  o |-> 2 * x, e |-> "",    left |-> 2 * x]
    [] g = "id"      -> [ok |-> TRUE,  o |-> x,     e |-> "",    left |-> x]
    [] g = "fail"    -> [ok |-> FALSE, o |-> NoVal, e |-> "R",   left |-> x]
    [] g = "mutfail" -> [ok |-> FALSE, o |-> NoVal, e |-> "R2",  left |-> x + 1]
    [] g = "halve"   -> IF x % 2 = 0
                        THEN [ok |-> TRUE,  o |-> x \div 2, e |-> "", left |-> x \div 2]
                        ELSE [ok |-> FALSE, o |-> NoVal, e |-> "odd", left |-> x]

NoToken == [kind |-> "none", of |-> "none"]
\* The Token a container yields from take_owned.
Token(c) == [kind |-> "Token", of |-> c]
\* A conversion that hands the Token back unwrapped.
ConsumedTokenFrom_unwrapped(t) == t

\* ConsumedToken::from(t)
ConsumedTokenFrom(t) == [kind |-> "ConsumedToken", of |-> t.of]

NoRes == [tag |-> "none", o |-> NoVal, e |-> "", tok |-> NoToken]

VARIABLES
  slot,      \* slot[s]: the guarded value stored in slot s
  guards,    \* guards[c]: the slot container c gives Take<T> access to
  tokenIn,   \* tokenIn[c]: container c still holds its Token
  takes,     \* takes[c]: number of take_owned executions on container c
  pc,        \* pc[u]: position of unit u in its lifecycle / inside apply
  f,         \* f[u]: the stored transform (field `f`)
  next,      \* next[u]: the scratch copy inside apply
  fc,        \* fc[u]: the clone of the transform taken inside apply
  pre,       \* pre[u]: guarded value read when apply/cancel started
  calls,     \* calls[u]: number of invocations of u's transform
  writes,    \* writes[u]: number of executions of replace by u
  log,       \* log[u]: the calls made on u's behalf, in order
  res,       \* res[u]: what apply / cancel returned
  by,        \* by[u]: the operation that consumed u
  ret,       \* ret[u]: last value handed out by get_next / take_ref
  chainpc,   \* position of the Chain built from A and B
  chainRes,  \* what Chain's apply returned
  orig       \* orig[s]: the value slot s held before any unit was built

vars == <<slot, guards, tokenIn, takes, pc, f, next, fc, pre, calls, writes,
          log, res, by, ret, chainpc, chainRes, orig>>

unitVars == <<pc, f, next, fc, pre, calls, writes, log, res, by, ret>>
contVars == <<slot, guards, tokenIn, takes, orig>>
chainVars == <<chainpc, chainRes>>

NoRet == [op |-> "none", val |-> NoVal, fn |-> "none"]
NoChainRes == [tag |-> "none", oA |-> NoVal, oB |-> NoVal, e |-> "", tok |-> NoToken]

\* State before any unit is built: containers hold their values and tokens.
InitCommon ==
  /\ slot \in [Slots -> 0..MaxVal]
  /\ orig = slot
  /\ tokenIn = [c \in Containers |-> TRUE]
  /\ takes = [c \in Containers |-> 0]
  /\ pc = [u \in Units |-> "none"]
  /\ f = [u \in Units |-> "none"]
  /\ next = [u \in Units |-> NoVal]
  /\ fc = [u \in Units |-> "none"]
  /\ pre = [u \in Units |-> NoVal]
  /\ calls = [u \in Units |-> 0]
  /\ writes = [u \in Units |-> 0]
  /\ log = [u \in Units |-> <<>>]
  /\ res = [u \in Units |-> NoRes]
  /\ by = [u \in Units |-> "none"]
  /\ ret = [u \in Units |-> NoRet]
  /\ chainpc = "none"
  /\ chainRes = NoChainRes

\* One Prepared unit over its own container.
Init ==
  /\ InitCommon
  /\ guards = [c \in Containers |-> IF c = "cA" THEN 1 ELSE 2]

\* ---------------------------------------------------------------------------
\* Container capabilities used by Prepared (Take<T, target::Type>, TakeOwned)

\* self.inner.take_ref() followed by clone(): a copy of the guarded value.
get_next(s, g, c) == s[g[c]]

\* A modify_next that returns the scratch as it was passed in.
modify_next_stale(nx, g) ==
  LET r == Run(g, nx)
  IN IF r.ok THEN [ok |-> TRUE,  o |-> r.o,   e |-> "",  next |-> nx]
             ELSE [ok |-> FALSE, o |-> NoVal, e |-> r.e, next |-> NoVal]

\* A modify_next that drops the `?`: the closure's error is not propagated.
modify_next_swallow(nx, g) ==
  LET r == Run(g, nx)
  IN [ok |-> TRUE, o |-> r.o, e |-> "", next |-> r.left]

\* modify_next(next, f): run f on the scratch; on Err the scratch is dropped.
modify_next(nx, g) ==
  LET r == Run(g, nx)
  IN IF r.ok THEN [ok |-> TRUE,  o |-> r.o,   e |-> "",  next |-> r.left]
             ELSE [ok |-> FALSE, o |-> NoVal, e |-> r.e, next |-> NoVal]

\* replace that leaves the container's value as it was.
replace_skip(s, g, c, nx) == s

\* replace(&mut self, next): *self.inner.take_mut() = next
replace(s, g, c, nx) == [s EXCEPT ![g[c]] = nx]

\* self.inner.take_owned(): the container gives up its Token.
take_owned(tin, c) == [tin EXCEPT ![c] = FALSE]

\* The slot unit u's container gives access to.
SlotOf(g, u) == g[ContOf(u)]

\* A unit may be driven by its owner: the caller while it is not part of a
\* Chain, the Chain's apply once it is.
Driven(u) ==
  \/ chainpc = "none"
  \/ chainpc = "applyA" /\ u = "A"
  \/ chainpc = "applyB" /\ u = "B"

\* ---------------------------------------------------------------------------
\* A constructor that runs the transform on the guarded value right away.
New_eager(u, g) ==
  /\ pc[u] = "none"
  /\ pc' = [pc EXCEPT ![u] = "new"]
  /\ f' = [f EXCEPT ![u] = g]
  /\ calls' = [calls EXCEPT ![u] = @ + 1]
  /\ slot' = [slot EXCEPT ![guards[ContOf(u)]] = Run(g, @).left]
  /\ UNCHANGED <<next, fc, pre, writes, log, res, by, ret>>
  /\ UNCHANGED <<guards, tokenIn, takes, orig>>
  /\ UNCHANGED chainVars

\* Prepared::new(outer, f)
New(u, g) ==
  /\ pc[u] = "none"
  /\ pc' = [pc EXCEPT ![u] = "new"]
  /\ f' = [f EXCEPT ![u] = g]
  /\ UNCHANGED <<next, fc, pre, calls, writes, log, res, by, ret>>
  /\ UNCHANGED contVars
  /\ UNCHANGED chainVars

\* Take<FInner, target::Function>::take_ref(&self) -> &FInner
TakeRef(u) ==
  /\ pc[u] = "new" /\ chainpc = "none"
  /\ ret' = [ret EXCEPT ![u] = [op |-> "take_ref", val |-> NoVal, fn |-> f[u]]]
  /\ UNCHANGED <<pc, f, next, fc, pre, calls, writes, log, res, by>>
  /\ UNCHANGED contVars
  /\ UNCHANGED chainVars

\* Take<FInner, target::Function>::take_mut(&mut self) -> &mut FInner,
\* through which the caller stores g.
TakeMut(u, g) ==
  /\ pc[u] = "new" /\ chainpc = "none"
  /\ f' = [f EXCEPT ![u] = g]
  /\ ret' = [ret EXCEPT ![u] = [op |-> "take_mut", val |-> NoVal, fn |-> g]]
  /\ UNCHANGED <<pc, next, fc, pre, calls, writes, log, res, by>>
  /\ UNCHANGED contVars
  /\ UNCHANGED chainVars

\* A get_next that moves the value out of the container (leaving the
\* default value) instead of cloning it.
GetNext_moves_out(u) ==
  /\ pc[u] = "new" /\ chainpc = "none"
  /\ ret' = [ret EXCEPT ![u] = [op |-> "get_next",
                                val |-> get_next(slot, guards, ContOf(u)),
                                fn |-> "none"]]
  /\ slot' = [slot EXCEPT ![guards[ContOf(u)]] = 0]
  /\ UNCHANGED <<pc, f, next, fc, pre, calls, writes, log, res, by>>
  /\ UNCHANGED <<guards, tokenIn, takes, orig>>
  /\ UNCHANGED chainVars

\* PartialApply::get_next(&self) called by the owner of the unit.
GetNext(u) ==
  /\ pc[u] = "new" /\ chainpc = "none"
  /\ ret' = [ret EXCEPT ![u] = [op |-> "get_next",
                                val |-> get_next(slot, guards, ContOf(u)),
                                fn |-> "none"]]
  /\ UNCHANGED <<pc, f, next, fc, pre, calls, writes, log, res, by>>
  /\ UNCHANGED contVars
  /\ UNCHANGED chainVars

\* ---------------------------------------------------------------------------
\* A cancel that runs the stored transform on the guarded value first.
cancel_invokes(u, op) ==
  /\ pc[u] = "new" /\ chainpc = "none"
  /\ pre' = [pre EXCEPT ![u] = slot[guards[ContOf(u)]]]
  /\ calls' = [calls EXCEPT ![u] = @ + 1]
  /\ slot' = [slot EXCEPT ![guards[ContOf(u)]] = Run(f[u], @).left]
  /\ tokenIn' = take_owned(tokenIn, ContOf(u))
  /\ takes' = [takes EXCEPT ![ContOf(u)] = @ + 1]
  /\ log' = [log EXCEPT ![u] = Append(@, "take_owned")]
  /\ res' = [res EXCEPT ![u] = [tag |-> "Token", o |-> NoVal, e |-> "",
                                tok |-> Token(ContOf(u))]]
  /\ by' = [by EXCEPT ![u] = op]
  /\ pc' = [pc EXCEPT ![u] = "done"]
  /\ UNCHANGED <<f, next, fc, writes, ret>>
  /\ UNCHANGED <<guards, orig>>
  /\ UNCHANGED chainVars

\* A cancel taking `&mut self`: the unit stays usable after it was consumed.
cancel_reusable(u, op) ==
  /\ pc[u] \in {"new", "done"} /\ chainpc = "none"
  /\ takes[ContOf(u)] < 2
  /\ pre' = [pre EXCEPT ![u] = slot[guards[ContOf(u)]]]
  /\ tokenIn' = take_owned(tokenIn, ContOf(u))
  /\ takes' = [takes EXCEPT ![ContOf(u)] = @ + 1]
  /\ log' = [log EXCEPT ![u] = Append(@, "take_owned")]
  /\ res' = [res EXCEPT ![u] = [tag |-> "Token", o |-> NoVal, e |-> "",
                                tok |-> Token(ContOf(u))]]
  /\ by' = [by EXCEPT ![u] = op]
  /\ pc' = [pc EXCEPT ![u] = "done"]
  /\ UNCHANGED <<f, next, fc, calls, writes, ret>>
  /\ UNCHANGED <<slot, guards, orig>>
  /\ UNCHANGED chainVars

\* Prepared::cancel(self) -> Token: self.inner.take_owned()
cancel(u, op) ==
  /\ pc[u] = "new" /\ chainpc = "none"
  /\ pre' = [pre EXCEPT ![u] = slot[guards[ContOf(u)]]]
  /\ tokenIn' = take_owned(tokenIn, ContOf(u))
  /\ takes' = [takes EXCEPT ![ContOf(u)] = @ + 1]
  /\ log' = [log EXCEPT ![u] = Append(@, "take_owned")]
  /\ res' = [res EXCEPT ![u] = [tag |-> "Token", o |-> NoVal, e |-> "",
                                tok |-> Token(ContOf(u))]]
  /\ by' = [by EXCEPT ![u] = op]
  /\ pc' = [pc EXCEPT ![u] = "done"]
  /\ UNCHANGED <<f, next, fc, calls, writes, ret>>
  /\ UNCHANGED <<slot, guards, orig>>
  /\ UNCHANGED chainVars

Cancel(u) == cancel(u, "cancel")

\* An unchecked_cancel with a body of its own, which hands out a Token
\* without extracting it from the container.
UncheckedCancel_own_body(u) ==
  /\ pc[u] = "new" /\ chainpc = "none"
  /\ pre' = [pre EXCEPT ![u] = slot[guards[ContOf(u)]]]
  /\ res' = [res EXCEPT ![u] = [tag |-> "Token", o |-> NoVal, e |-> "",
                                tok |-> Token(ContOf(u))]]
  /\ by' = [by EXCEPT ![u] = "unchecked_cancel"]
  /\ pc' = [pc EXCEPT ![u] = "done"]
  /\ UNCHANGED <<f, next, fc, calls, writes, log, ret>>
  /\ UNCHANGED contVars
  /\ UNCHANGED chainVars

\* Prepared::unchecked_cancel(self) -> Token: unsafe { self.cancel() }
UncheckedCancel(u) == cancel(u, "unchecked_cancel")

\* TakeOwned<Token, target::Token>::take_owned(self) for Prepared:
\* self.inner.take_owned()
TakeOwned(u) ==
  /\ pc[u] = "new" /\ chainpc = "none"
  /\ pre' = [pre EXCEPT ![u] = slot[guards[ContOf(u)]]]
  /\ tokenIn' = take_owned(tokenIn, ContOf(u))
  /\ takes' = [takes EXCEPT ![ContOf(u)] = @ + 1]
  /\ log' = [log EXCEPT ![u] = Append(@, "take_owned")]
  /\ res' = [res EXCEPT ![u] = [tag |-> "Token", o |-> NoVal, e |-> "",
                                tok |-> Token(ContOf(u))]]
  /\ by' = [by EXCEPT ![u] = "take_owned"]
  /\ pc' = [pc EXCEPT ![u] = "done"]
  /\ UNCHANGED <<f, next, fc, calls, writes, ret>>
  /\ UNCHANGED <<slot, guards, orig>>
  /\ UNCHANGED chainVars

\* ---------------------------------------------------------------------------
\* Prepared::apply(mut self), statement by statement.  The unit is moved
\* into apply, so nothing else acts on it between these steps.

\* let next = self.get_next();
ApplyGetNext(u) ==
  /\ pc[u] = "new" /\ Driven(u)
  /\ pre' = [pre EXCEPT ![u] = slot[guards[ContOf(u)]]]
  /\ next' = [next EXCEPT ![u] = get_next(slot, guards, ContOf(u))]
  /\ log' = [log EXCEPT ![u] = Append(@, "get_next")]
  /\ by' = [by EXCEPT ![u] = "apply"]
  /\ pc' = [pc EXCEPT ![u] = "got_next"]
  /\ UNCHANGED <<f, fc, calls, writes, res, ret>>
  /\ UNCHANGED contVars
  /\ UNCHANGED chainVars

\* let f = self.f.clone();
ApplyCloneF(u) ==
  /\ pc[u] = "got_next"
  /\ fc' = [fc EXCEPT ![u] = f[u]]
  /\ pc' = [pc EXCEPT ![u] = "cloned"]
  /\ UNCHANGED <<f, next, pre, calls, writes, log, res, by, ret>>
  /\ UNCHANGED contVars
  /\ UNCHANGED chainVars

\* A modification step that, when the transform fails, starts over from the
\* snapshot instead of taking the error path.
ApplyModifyNext_retry(u) ==
  /\ pc[u] = "cloned"
  /\ LET r == modify_next(next[u], fc[u])
     IN /\ next' = [next EXCEPT ![u] = IF r.ok THEN r.next ELSE @]
        /\ res' = [res EXCEPT ![u] = IF r.ok
                                     THEN [tag |-> "pending", o |-> r.o,
                                           e |-> r.e, tok |-> NoToken]
                                     ELSE @]
        /\ pc' = [pc EXCEPT ![u] = IF r.ok THEN "mod_ok" ELSE "got_next"]
        /\ log' = [log EXCEPT ![u] = IF r.ok THEN Append(@, "modify_next") ELSE @]
  /\ calls' = [calls EXCEPT ![u] = 1]
  /\ UNCHANGED <<f, fc, pre, writes, by, ret>>
  /\ UNCHANGED contVars
  /\ UNCHANGED chainVars

\* A modification step that invokes the transform a second time on what the
\* first invocation left behind.
ApplyModifyNext_twice(u) ==
  /\ pc[u] = "cloned"
  /\ LET r == modify_next(Run(fc[u], next[u]).left, fc[u])
     IN /\ next' = [next EXCEPT ![u] = r.next]
        /\ res' = [res EXCEPT ![u] = [tag |-> "pending", o |-> r.o, e |-> r.e,
                                      tok |-> NoToken]]
        /\ pc' = [pc EXCEPT ![u] = IF r.ok THEN "mod_ok" ELSE "mod_err"]
  /\ calls' = [calls EXCEPT ![u] = @ + 2]
  /\ log' = [log EXCEPT ![u] = Append(@, "modify_next")]
  /\ UNCHANGED <<f, fc, pre, writes, by, ret>>
  /\ UNCHANGED contVars
  /\ UNCHANGED chainVars

\* A modification made through `&mut` to the guarded value itself instead
\* of to the scratch copy.
ApplyModifyNext_in_place(u) ==
  /\ pc[u] = "cloned"
  /\ LET r == modify_next(next[u], fc[u])
     IN /\ next' = [next EXCEPT ![u] = r.next]
        /\ res' = [res EXCEPT ![u] = [tag |-> "pending", o |-> r.o, e |-> r.e,
                                      tok |-> NoToken]]
        /\ pc' = [pc EXCEPT ![u] = IF r.ok THEN "mod_ok" ELSE "mod_err"]
  /\ slot' = [slot EXCEPT ![guards[ContOf(u)]] = Run(fc[u], next[u]).left]
  /\ calls' = [calls EXCEPT ![u] = @ + 1]
  /\ log' = [log EXCEPT ![u] = Append(@, "modify_next")]
  /\ UNCHANGED <<f, fc, pre, writes, by, ret>>
  /\ UNCHANGED <<guards, tokenIn, takes, orig>>
  /\ UNCHANGED chainVars

\* match Self::modify_next(next, f) { Ok(v) => v, Err(e) => ... }
ApplyModifyNext(u) ==
  /\ pc[u] = "cloned"
  /\ LET r == modify_next(next[u], fc[u])
     IN /\ next' = [next EXCEPT ![u] = r.next]
        /\ res' = [res EXCEPT ![u] = [tag |-> "pending", o |-> r.o, e |-> r.e,
                                      tok |-> NoToken]]
        /\ pc' = [pc EXCEPT ![u] = IF r.ok THEN "mod_ok" ELSE "mod_err"]
  /\ calls' = [calls EXCEPT ![u] = @ + 1]
  /\ log' = [log EXCEPT ![u] = Append(@, "modify_next")]
  /\ UNCHANGED <<f, fc, pre, writes, by, ret>>
  /\ UNCHANGED contVars
  /\ UNCHANGED chainVars

\* An error path that stores what the failed transform left behind before
\* it returns.
ApplyErrReturn_replaces(u) ==
  /\ pc[u] = "mod_err"
  /\ slot' = replace(slot, guards, ContOf(u), Run(fc[u], pre[u]).left)
  /\ writes' = [writes EXCEPT ![u] = @ + 1]
  /\ tokenIn' = take_owned(tokenIn, ContOf(u))
  /\ takes' = [takes EXCEPT ![ContOf(u)] = @ + 1]
  /\ log' = [log EXCEPT ![u] = Append(Append(@, "replace"), "take_owned")]
  /\ res' = [res EXCEPT ![u] = [tag |-> "Err", o |-> NoVal, e |-> res[u].e,
                                tok |-> Token(ContOf(u))]]
  /\ pc' = [pc EXCEPT ![u] = "done"]
  /\ UNCHANGED <<f, next, fc, pre, calls, by, ret>>
  /\ UNCHANGED <<guards, orig>>
  /\ UNCHANGED chainVars

\* An error path that returns without extracting the container's Token.
ApplyErrReturn_keeps_token(u) ==
  /\ pc[u] = "mod_err"
  /\ res' = [res EXCEPT ![u] = [tag |-> "Err", o |-> NoVal, e |-> res[u].e,
                                tok |-> NoToken]]
  /\ pc' = [pc EXCEPT ![u] = "done"]
  /\ UNCHANGED <<f, next, fc, pre, calls, writes, log, by, ret>>
  /\ UNCHANGED contVars
  /\ UNCHANGED chainVars

\* Err(e) => { let t = unsafe { self.inner.take_owned() }; return Err((e, t)); }
ApplyErrReturn(u) ==
  /\ pc[u] = "mod_err"
  /\ tokenIn' = take_owned(tokenIn, ContOf(u))
  /\ takes' = [takes EXCEPT ![ContOf(u)] = @ + 1]
  /\ log' = [log EXCEPT ![u] = Append(@, "take_owned")]
  /\ res' = [res EXCEPT ![u] = [tag |-> "Err", o |-> NoVal, e |-> res[u].e,
                                tok |-> Token(ContOf(u))]]
  /\ pc' = [pc EXCEPT ![u] = "done"]
  /\ UNCHANGED <<f, next, fc, pre, calls, writes, by, ret>>
  /\ UNCHANGED <<slot, guards, orig>>
  /\ UNCHANGED chainVars

\* The Token extracted first and the guarded value overwritten afterwards.
ApplyReplace_after_take(u) ==
  /\ pc[u] = "mod_ok"
  /\ tokenIn' = take_owned(tokenIn, ContOf(u))
  /\ takes' = [takes EXCEPT ![ContOf(u)] = @ + 1]
  /\ slot' = replace(slot, guards, ContOf(u), next[u])
  /\ writes' = [writes EXCEPT ![u] = @ + 1]
  /\ log' = [log EXCEPT ![u] = Append(Append(@, "take_owned"), "replace")]
  /\ res' = [res EXCEPT ![u] = [@ EXCEPT !.tok = Token(ContOf(u))]]
  /\ pc' = [pc EXCEPT ![u] = "done"]
  /\ UNCHANGED <<f, next, fc, pre, calls, by, ret>>
  /\ UNCHANGED <<guards, orig>>
  /\ UNCHANGED chainVars

\* self.replace(next);
ApplyReplace(u) ==
  /\ pc[u] = "mod_ok"
  /\ slot' = replace(slot, guards, ContOf(u), next[u])
  /\ writes' = [writes EXCEPT ![u] = @ + 1]
  /\ log' = [log EXCEPT ![u] = Append(@, "replace")]
  /\ pc' = [pc EXCEPT ![u] = "replaced"]
  /\ UNCHANGED <<f, next, fc, pre, calls, res, by, ret>>
  /\ UNCHANGED <<guards, tokenIn, takes, orig>>
  /\ UNCHANGED chainVars

\* let t = unsafe { self.inner.take_owned() };
\* let consumed = ConsumedToken::from(t); Ok((o, consumed))
ApplyOkReturn(u) ==
  /\ pc[u] = "replaced"
  /\ tokenIn' = take_owned(tokenIn, ContOf(u))
  /\ takes' = [takes EXCEPT ![ContOf(u)] = @ + 1]
  /\ log' = [log EXCEPT ![u] = Append(@, "take_owned")]
  /\ res' = [res EXCEPT ![u] = [tag |-> "Ok", o |-> res[u].o, e |-> "",
                                tok |-> ConsumedTokenFrom(Token(ContOf(u)))]]
  /\ pc' = [pc EXCEPT ![u] = "done"]
  /\ UNCHANGED <<f, next, fc, pre, calls, writes, by, ret>>
  /\ UNCHANGED <<slot, guards, orig>>
  /\ UNCHANGED chainVars

\* ---------------------------------------------------------------------------
\* Prepared::apply(mut self): the statements above, in program order.
Apply(u) ==
  \/ ApplyGetNext(u)
  \/ ApplyCloneF(u)
  \/ ApplyModifyNext(u)
  \/ ApplyErrReturn(u)
  \/ ApplyReplace(u)
  \/ ApplyOkReturn(u)

\* Everything the owner of a unit can do with it.
UnitNext(u) ==
  \/ \E g \in Transforms : New(u, g)
  \/ TakeRef(u)
  \/ \E g \in Transforms : TakeMut(u, g)
  \/ GetNext(u)
  \/ Cancel(u)
  \/ UncheckedCancel(u)
  \/ TakeOwned(u)
  \/ Apply(u)

Next == UnitNext("A")

Spec == Init /\ [][Next]_vars

\* ===========================================================================
\* Properties of a single Prepared unit (checked under Spec)

\* What the stored transform of unit u does to the value apply read.
Expected(u) == Run(f[u], pre[u])

Applied(u) == pc[u] = "done" /\ by[u] = "apply"

\* C1: if the transform applied to the guarded value x succeeds with output o
\* and mutated value x', apply returns Ok((o, consumed)) and the guarded slot
\* holds x' when apply has returned.
C1_ApplySuccess ==
  \A u \in Units :
    (Applied(u) /\ Expected(u).ok) =>
      /\ res[u].tag = "Ok"
      /\ res[u].o = Expected(u).o
      /\ res[u].tok = [kind |-> "ConsumedToken", of |-> ContOf(u)]
      /\ slot[SlotOf(guards, u)] = Expected(u).left

\* Example 1: guarded value 5, "increment and return the new value".
C1_Witness ==
  /\ Applied("A") /\ f["A"] = "inc" /\ pre["A"] = 5
  /\ res["A"].tag = "Ok" /\ res["A"].o = 6
  /\ slot[1] = 6

\* C2: if the transform applied to x fails with e, apply returns
\* Err((e, token)), the guarded slot still holds x, and replace was never
\* executed.
C2_ApplyFailure ==
  \A u \in Units :
    (Applied(u) /\ ~Expected(u).ok) =>
      /\ res[u].tag = "Err"
      /\ res[u].e = Expected(u).e
      /\ res[u].tok = [kind |-> "Token", of |-> ContOf(u)]
      /\ slot[SlotOf(guards, u)] = pre[u]
      /\ writes[u] = 0

\* A transform that mutates its argument and then fails, over the value 5.
C2_Witness ==
  /\ Applied("A") /\ f["A"] = "mutfail" /\ pre["A"] = 5
  /\ res["A"].tag = "Err" /\ res["A"].e = "R2"
  /\ slot[1] = 5

\* C3: every apply produces exactly one of {Token, ConsumedToken}: none
\* before it returns, one extraction when it has; a ConsumedToken only with
\* the guarded slot holding the transformed value, a Token only with the
\* guarded slot equal to its value before the call.
C3_ExactlyOneToken ==
  \A u \in Units :
    /\ (by[u] = "apply" /\ pc[u] # "done") =>
         (res[u].tok = NoToken /\ takes[ContOf(u)] = 0)
    /\ Applied(u) =>
         /\ takes[ContOf(u)] = 1
         /\ res[u].tok.of = ContOf(u)
         /\ res[u].tok.kind \in {"Token", "ConsumedToken"}
         /\ res[u].tok.kind = "ConsumedToken" =>
              /\ res[u].tag = "Ok"
              /\ Expected(u).ok
              /\ slot[SlotOf(guards, u)] = Expected(u).left
         /\ res[u].tok.kind = "Token" =>
              /\ res[u].tag = "Err"
              /\ slot[SlotOf(guards, u)] = pre[u]

\* An apply that returned a ConsumedToken after changing the value.
C3_Witness ==
  /\ Applied("A") /\ res["A"].tok.kind = "ConsumedToken"
  /\ f["A"] = "dbl" /\ pre["A"] = 3 /\ slot[1] = 6

\* C4: cancel and unchecked_cancel never invoke the stored transform, leave
\* the guarded slot unchanged, and return the container's Token.
C4_CancelFrame ==
  \A u \in Units :
    by[u] \in {"cancel", "unchecked_cancel"} =>
      /\ pc[u] = "done"
      /\ calls[u] = 0
      /\ writes[u] = 0
      /\ slot[SlotOf(guards, u)] = pre[u]
      /\ slot = orig
      /\ res[u].tag = "Token"
      /\ res[u].tok = [kind |-> "Token", of |-> ContOf(u)]

\* unchecked_cancel of a unit whose transform would have changed the value.
C4_Witness ==
  /\ by["A"] = "unchecked_cancel" /\ f["A"] = "inc"
  /\ res["A"].tok.kind = "Token" /\ slot[1] = 5

\* C5: a unit is consumed once: the operation that consumed it never
\* changes, and once apply or cancel has returned, no step invokes the
\* transform, replaces the value, extracts a token or returns again.
C5_ConsumedOnce ==
  [][\A u \in Units :
       /\ by[u] # "none" => by'[u] = by[u]
       /\ pc[u] = "done" =>
            /\ pc'[u] = "done"
            /\ calls'[u] = calls[u]
            /\ writes'[u] = writes[u]
            /\ takes'[ContOf(u)] = takes[ContOf(u)]
            /\ log'[u] = log[u]
            /\ res'[u] = res[u]
            /\ slot'[SlotOf(guards, u)] = slot[SlotOf(guards, u)]]_vars

\* A unit consumed by cancel; nothing is enabled on it afterwards.
C5_Witness ==
  /\ pc["A"] = "done" /\ by["A"] = "cancel"
  /\ ~ENABLED Apply("A") /\ ~ENABLED Cancel("A") /\ ~ENABLED UncheckedCancel("A")

\* C6: take_owned is executed on a container at most once; it has been
\* executed exactly once when apply (success or failure) or cancel has
\* returned, and not at all before.
C6_OneToken ==
  /\ \A c \in Containers :
       /\ takes[c] <= 1
       /\ tokenIn[c] = (takes[c] = 0)
  /\ \A u \in Units :
       /\ pc[u] = "done" => takes[ContOf(u)] = 1
       /\ pc[u] # "done" => takes[ContOf(u)] = 0
       /\ Len(SelectSeq(log[u], LAMBDA x : x = "take_owned")) = takes[ContOf(u)]

\* The failure path of apply has extracted the token.
C6_Witness ==
  /\ Applied("A") /\ res["A"].tag = "Err" /\ takes["cA"] = 1 /\ ~tokenIn["cA"]

\* C7: the guarded value is written only while the token is still in the
\* container: a step that executes replace or changes the slot starts and
\* ends with no take_owned executed, so replace comes strictly before
\* take_owned and nothing is written after it.
C7_NoWriteAfterTake ==
  [][\A u \in Units :
       (writes'[u] # writes[u] \/
        slot'[SlotOf(guards, u)] # slot[SlotOf(guards, u)]) =>
         (takes[ContOf(u)] = 0 /\ takes'[ContOf(u)] = 0)]_vars

\* The success path: replace logged, then take_owned.
C7_Witness ==
  /\ Applied("A") /\ log["A"] = <<"get_next", "modify_next", "replace", "take_owned">>
  /\ slot[1] # pre["A"]

\* ---------------------------------------------------------------------------
\* Chain of two Prepared units, A then B.

\* Two units whose containers guard the same slot or different slots.
ChainInit ==
  /\ InitCommon
  /\ guards \in [Containers -> Slots]
  /\ guards["cA"] = 1

\* Prepared::chain(self, a2) -> Chain<Self, A2>: Chain::new(self, a2)
ChainOp ==
  /\ chainpc = "none"
  /\ pc["A"] = "new" /\ pc["B"] = "new"
  /\ chainpc' = "built"
  /\ UNCHANGED chainRes
  /\ UNCHANGED unitVars
  /\ UNCHANGED contVars

\* Chain's apply, step 1: apply A.
ChainApply ==
  /\ chainpc = "built"
  /\ chainpc' = "applyA"
  /\ UNCHANGED chainRes
  /\ UNCHANGED unitVars
  /\ UNCHANGED contVars

\* A failed: the Chain fails with A's error and A's Token; B is not applied.
ChainAFailed ==
  /\ chainpc = "applyA"
  /\ pc["A"] = "done" /\ res["A"].tag = "Err"
  /\ chainRes' = [tag |-> "Err", oA |-> NoVal, oB |-> NoVal,
                  e |-> res["A"].e, tok |-> res["A"].tok]
  /\ chainpc' = "done"
  /\ UNCHANGED unitVars
  /\ UNCHANGED contVars

\* A succeeded: step 2, apply B.
ChainASucceeded ==
  /\ chainpc = "applyA"
  /\ pc["A"] = "done" /\ res["A"].tag = "Ok"
  /\ chainpc' = "applyB"
  /\ UNCHANGED chainRes
  /\ UNCHANGED unitVars
  /\ UNCHANGED contVars

\* B failed after A committed: overall failure, no rollback of A.
ChainBFailed ==
  /\ chainpc = "applyB"
  /\ pc["B"] = "done" /\ res["B"].tag = "Err"
  /\ chainRes' = [tag |-> "Err", oA |-> NoVal, oB |-> NoVal,
                  e |-> res["B"].e, tok |-> res["B"].tok]
  /\ chainpc' = "done"
  /\ UNCHANGED unitVars
  /\ UNCHANGED contVars

\* Both succeeded: overall success with both outputs.
ChainBSucceeded ==
  /\ chainpc = "applyB"
  /\ pc["B"] = "done" /\ res["B"].tag = "Ok"
  /\ chainRes' = [tag |-> "Ok", oA |-> res["A"].o, oB |-> res["B"].o,
                  e |-> "", tok |-> res["B"].tok]
  /\ chainpc' = "done"
  /\ UNCHANGED unitVars
  /\ UNCHANGED contVars

\* Two units are built, chained, and the Chain is applied.
ChainNext ==
  \/ \E u \in Units, g \in Transforms : New(u, g)
  \/ \E u \in Units : chainpc \in {"applyA", "applyB"} /\ Apply(u)
  \/ ChainOp
  \/ ChainApply
  \/ ChainAFailed
  \/ ChainASucceeded
  \/ ChainBFailed
  \/ ChainBSucceeded

ChainSpec == ChainInit /\ [][ChainNext]_vars

\* ===========================================================================
\* Properties of Chain(A, B) (checked under ChainSpec)

Shared == guards["cA"] = guards["cB"]

\* What A's transform does to the value A's slot started with.
ChainA == Run(f["A"], orig[guards["cA"]])

\* The value B's apply reads if A committed: A's result when both containers
\* guard the same slot, B's own initial value otherwise.
ChainBIn == IF Shared THEN ChainA.left ELSE orig[guards["cB"]]

\* What B's transform does to that value.
ChainB == Run(f["B"], ChainBIn)

ChainBuilt == chainpc # "none"

\* C8: when A's apply fails, the Chain returns failure with A's error and
\* A's Token; B's transform is never invoked, B's guarded slot is unchanged
\* and B's container keeps its token.
C8_ChainAFails ==
  (ChainBuilt /\ ~ChainA.ok) =>
    /\ calls["B"] = 0
    /\ writes["B"] = 0
    /\ pc["B"] = "new"
    /\ tokenIn["cB"]
    /\ slot = orig
    /\ chainpc = "done" =>
         /\ chainRes.tag = "Err"
         /\ chainRes.e = ChainA.e
         /\ chainRes.tok = [kind |-> "Token", of |-> "cA"]

\* A failed on an odd value while B would have succeeded.
C8_Witness ==
  /\ chainpc = "done" /\ f["A"] = "halve" /\ orig[1] = 5 /\ f["B"] = "inc"
  /\ chainRes.tag = "Err" /\ chainRes.e = "odd" /\ calls["A"] = 1

BuildNext ==
  \/ UnitNext("A")
  \/ \E g \in Transforms : New("B", g)
  \/ ChainOp

BuildSpec == Init /\ [][BuildNext]_vars

C13_ReplaceAfterSuccess ==
  [][\A u \in Units :
       /\ writes'[u] # writes[u] =>
            /\ writes[u] = 0 /\ writes'[u] = 1
            /\ by[u] = "apply" /\ pc[u] = "mod_ok"
            /\ log[u] = <<"get_next", "modify_next">>
            /\ Run(fc[u], pre[u]).ok
            /\ slot'[SlotOf(guards, u)] = Run(fc[u], pre[u]).left
       /\ slot'[SlotOf(guards, u)] # slot[SlotOf(guards, u)] =>
            writes'[u] = writes[u] + 1]_vars

\* replace has run, after modify_next, and the token is still in place.
C13_Witness ==
  /\ pc["A"] = "replaced" /\ writes["A"] = 1 /\ takes["cA"] = 0
  /\ log["A"] = <<"get_next", "modify_next", "replace">>
  /\ fc["A"] = "halve" /\ pre["A"] = 4 /\ slot[1] = 2

\* C14: a call of get_next returns the current guarded value and leaves the
\* guarded slot, the stored transform, the token and the unit's position
\* unchanged; whatever calls of get_next came before it, apply returns what
\* the stored transform yields on the value the unit was built over.
C14_GetNextFrame ==
  /\ [][\A u \in Units :
          (ret'[u] # ret[u] /\ ret'[u].op = "get_next") =>
            /\ ret'[u].val = slot[SlotOf(guards, u)]
            /\ slot' = slot
            /\ f' = f
            /\ tokenIn' = tokenIn /\ takes' = takes
            /\ pc' = pc /\ calls' = calls /\ res' = res]_vars
  /\ [](\A u \in Units :
          Applied(u) =>
            LET r == Run(f[u], orig[SlotOf(guards, u)])
            IN /\ pre[u] = orig[SlotOf(guards, u)]
               /\ res[u].tag = (IF r.ok THEN "Ok" ELSE "Err")
               /\ res[u].o = (IF r.ok THEN r.o ELSE NoVal)
               /\ res[u].e = r.e
               /\ slot[SlotOf(guards, u)] =
                    (IF r.ok THEN r.left ELSE orig[SlotOf(guards, u)]))

\* get_next was the last accessor called before apply; apply's outcome is
\* that of the transform on the original value.
C14_Witness ==
  /\ Applied("A") /\ ret["A"].op = "get_next" /\ ret["A"].val = 3
  /\ f["A"] = "inc" /\ res["A"].o = 4 /\ slot[1] = 4

\* C15: apply invokes the transform exactly once, on the success path and on
\* the failure path: not before modify_next, once from then on; what is
\* invoked is the clone of the stored transform, and it is applied to the
\* snapshot get_next took.
C15_TransformOnce ==
  \A u \in Units :
    by[u] = "apply" =>
      /\ pc[u] = "got_next" => (calls[u] = 0 /\ next[u] = pre[u])
      /\ pc[u] = "cloned" =>
           (calls[u] = 0 /\ next[u] = pre[u] /\ fc[u] = f[u])
      /\ pc[u] \in {"mod_ok", "mod_err", "replaced", "done"} =>
           (calls[u] = 1 /\ fc[u] = f[u])
      /\ pc[u] = "mod_ok" =>
           /\ Expected(u).ok
           /\ next[u] = Expected(u).left
           /\ res[u].o = Expected(u).o
      /\ pc[u] = "mod_err" =>
           /\ ~Expected(u).ok
           /\ res[u].e = Expected(u).e
      /\ pc[u] = "done" =>
           res[u].tag = (IF Expected(u).ok THEN "Ok" ELSE "Err")

\* The failure path: halve invoked once on an odd value.
C15_Witness ==
  /\ Applied("A") /\ f["A"] = "halve" /\ pre["A"] = 3
  /\ res["A"].tag = "Err" /\ res["A"].e = "odd" /\ calls["A"] = 1

\* ---------------------------------------------------------------------------
\* apply is one synchronous call: once entered, its statements keep running.
FairSpec == Init /\ [][Next]_vars /\ WF_vars(Apply("A"))

\* C16: an apply that has started eventually returns Ok or Err; until then
\* its next statement is always ready to run, nothing else can act on the
\* unit, and the transform is never invoked a second time.
C16_ApplyTerminates ==
  /\ \A u \in Units :
       (by[u] = "apply") ~> (pc[u] = "done" /\ res[u].tag \in {"Ok", "Err"})
  /\ [](\A u \in Units :
          /\ calls[u] <= 1
          /\ (by[u] = "apply" /\ pc[u] # "done") =>
               /\ ENABLED Apply(u)
               /\ ~ENABLED Cancel(u)
               /\ ~ENABLED UncheckedCancel(u)
               /\ ~ENABLED TakeOwned(u)
               /\ ~ENABLED GetNext(u)
               /\ ~ENABLED (\E g \in Transforms : TakeMut(u, g)))

\* An apply that ran all four statements of the success path and returned.
C16_Witness ==
  /\ Applied("A") /\ res["A"].tag = "Ok" /\ f["A"] = "id"
  /\ Len(log["A"]) = 4 /\ calls["A"] = 1

\* C17: unchecked_cancel and cancel are equivalent: a step of either, from
\* the same unit state, returns the same Token and reaches the same state
\* (guarded slot unchanged, transform not invoked, the container's token
\* extracted once); only the name of the operation differs.
C17_CancelEquivalence ==
  [][\A u \in Units :
       (by[u] = "none" /\ by'[u] \in {"cancel", "unchecked_cancel"}) =>
         /\ res'[u] = [tag |-> "Token", o |-> NoVal, e |-> "",
                       tok |-> [kind |-> "Token", of |-> ContOf(u)]]
         /\ pc' = [pc EXCEPT ![u] = "done"]
         /\ slot' = slot /\ guards' = guards
         /\ f' = f /\ fc' = fc /\ next' = next /\ ret' = ret
         /\ calls' = calls /\ calls[u] = 0
         /\ writes' = writes
         /\ takes[ContOf(u)] = 0
         /\ takes' = [takes EXCEPT ![ContOf(u)] = 1]
         /\ tokenIn[ContOf(u)]
         /\ tokenIn' = [tokenIn EXCEPT ![ContOf(u)] = FALSE]
         /\ log' = [log EXCEPT ![u] = <<"take_owned">>]
         /\ pre' = [pre EXCEPT ![u] = slot[SlotOf(guards, u)]]]_vars

\* unchecked_cancel has extracted the container's token, as cancel does.
C17_Witness ==
  /\ by["A"] = "unchecked_cancel" /\ f["A"] = "mutfail"
  /\ takes["cA"] = 1 /\ ~tokenIn["cA"] /\ log["A"] = <<"take_owned">>
  /\ res["A"].tok = [kind |-> "Token", of |-> "cA"]

====
